---- MODULE Spec2Model ----
(***************************************************************************)
(* Model of the two programs of the repository:                            *)
(*   app.py  - the Flask backend: POST /get_data splits a ';'-separated    *)
(*             input, resolves every token to (lat, lon) and fetches the   *)
(*             air-quality and weather records of every resolved point;    *)
(*   def.py  - the imagery job: one NDVI frame per year of a year range.   *)
(* Text is a sequence of one-character strings.  Floating-point numbers    *)
(* are fixed-point integers with ScaleDigits decimal digits.               *)
(***************************************************************************)
EXTENDS Integers, Sequences, FiniteSets, TLC

VARIABLES
    pc,             \* position of the request handler of app.py
    run,            \* number of the request being served (1 or 2)
    taping,         \* whether the replies to this request are kept for a replay
    tape,           \* the replies the first request got, in call order
    body,           \* request.json of the request being served
    locations,      \* app.py:110
    idx,            \* position of the for loop of app.py:112 in locations
    lat, lon,       \* app.py:113, None or Some(value)
    air_response,   \* app.py:53, None or Some(reply)
    weather_response, \* app.py:57, None or Some(reply)
    results,        \* app.py:108
    response,       \* what the handler returned, None while it runs
    resolved,       \* (lat, lon) as app.py:124 saw them, per token handled
    geoCalls,       \* token positions for which geolocator.geocode was called
    airCalls,       \* token positions for which AIR_API_URL was requested
    weatherCalls,   \* token positions for which WEATHER_API_URL was requested
    first_response, \* the response to the first request, once it is repeated
    sh_client_id,   \* def.py:16
    sh_client_secret, \* def.py:17
    jpc,            \* position of the imagery job of def.py
    start_year, end_year, \* arguments of get_ndvi_images_from_sentinelhub
    year,           \* loop variable of def.py:42
    folder,         \* whether output_folder exists
    files,          \* years y for which frame_<y>.png is in output_folder
    requests,       \* years for which request.get_data() was called, in order
    outcomes,       \* what happened in each year visited, in order
    ndvi_data,      \* def.py:97, the raster last received
    normalized_ndvi \* def.py:103/105, the array last handed to plt.imshow

appVars == <<pc, run, taping, tape, body, locations, idx, lat, lon,
             air_response, weather_response, results, response, resolved,
             geoCalls, airCalls, weatherCalls, first_response>>
jobVars == <<sh_client_id, sh_client_secret, jpc, start_year, end_year, year,
             folder, files, requests, outcomes, ndvi_data, normalized_ndvi>>
vars == <<appVars, jobVars>>

(***************************************************************************)
(* Bounds of the model.                                                    *)
(***************************************************************************)
MaxLen == 4         \* longest location_input string
MaxTapedLen == 3    \* longest location_input string of a request that is repeated
MaxYears == 3       \* years from which the imagery job's range is drawn
MaxPixels == 3      \* most pixels of a raster
ScaleDigits == 3    \* decimal digits kept by the fixed-point numbers

FirstYear == 2015    \* def.py:126

None == <<>>
Some(v) == <<v>>

RECURSIVE Pow10(_)
Pow10(n) == IF n = 0 THEN 1 ELSE 10 * Pow10(n - 1)
Scale == Pow10(ScaleDigits)

(***************************************************************************)
(* Text: the characters of the model and the str methods app.py uses.      *)
(***************************************************************************)
Digits == {"4"}
Chars == Digits \cup {"-", ".", ",", ";", " ", "P"}
Strings(n) == UNION {[1..k -> Chars] : k \in 0..n}

RECURSIVE lstrip(_)
lstrip(s) == IF s # <<>> /\ Head(s) = " " THEN lstrip(Tail(s)) ELSE s

RECURSIVE rstrip(_)
rstrip(s) ==
    IF s # <<>> /\ s[Len(s)] = " " THEN rstrip(SubSeq(s, 1, Len(s) - 1)) ELSE s

\* str.strip()
strip(s) == rstrip(lstrip(s))

\* str.split(sep): "".split(";") is [""], "a;".split(";") is ["a", ""]
RECURSIVE split(_, _)
split(s, sep) ==
    IF \A i \in 1..Len(s) : s[i] # sep
    THEN <<s>>
    ELSE LET k == CHOOSE i \in 1..Len(s) :
                      s[i] = sep /\ \A j \in 1..(i - 1) : s[j] # sep
         IN  <<SubSeq(s, 1, k - 1)>> \o split(SubSeq(s, k + 1, Len(s)), sep)

RECURSIVE MapStrip(_)
MapStrip(q) == IF q = <<>> THEN <<>> ELSE <<strip(Head(q))>> \o MapStrip(Tail(q))

NonEmpty(s) == s # <<>>

\* app.py:110  [loc.strip() for loc in location_input.split(';') if loc.strip()]
Locations(location_input) ==
    SelectSeq(MapStrip(split(location_input, ";")), NonEmpty)

(***************************************************************************)
(* The coordinate-pair pattern of app.py:115 and float() of app.py:117.    *)
(***************************************************************************)
AllDigits(s) == \A i \in 1..Len(s) : s[i] \in Digits

\* \d+\.?\d*
MatchUnsigned(s) ==
    \E k \in 1..Len(s) :
        /\ AllDigits(SubSeq(s, 1, k))
        /\ \/ AllDigits(SubSeq(s, k + 1, Len(s)))
           \/ /\ k < Len(s)
              /\ s[k + 1] = "."
              /\ AllDigits(SubSeq(s, k + 2, Len(s)))

\* -?\d+\.?\d*
MatchNumber(s) ==
    IF s # <<>> /\ Head(s) = "-" THEN MatchUnsigned(Tail(s)) ELSE MatchUnsigned(s)

\* re.match(r'^-?\d+\.?\d*,-?\d+\.?\d*$', loc_str)
MatchesPair(s) ==
    \E k \in 1..Len(s) :
        /\ s[k] = ","
        /\ MatchNumber(SubSeq(s, 1, k - 1))
        /\ MatchNumber(SubSeq(s, k + 1, Len(s)))

DigitValue(c) == CASE c = "4" -> 4 [] OTHER -> 0

RECURSIVE IntValue(_)
IntValue(s) ==
    IF s = <<>> THEN 0
    ELSE 10 * IntValue(SubSeq(s, 1, Len(s) - 1)) + DigitValue(s[Len(s)])

\* the value of the fraction digits s, in units of 10^-ScaleDigits
FracValue(s) ==
    IF Len(s) <= ScaleDigits
    THEN IntValue(s) * Pow10(ScaleDigits - Len(s))
    ELSE IntValue(SubSeq(s, 1, ScaleDigits))

DotAt(s) == IF \E i \in 1..Len(s) : s[i] = "."
            THEN CHOOSE i \in 1..Len(s) : s[i] = "." /\ \A j \in 1..(i - 1) : s[j] # "."
            ELSE Len(s) + 1

\* what float() accepts of the text of the model: surrounding blanks, a sign,
\* digits with at most one point and at least one digit
FloatUnsignedOk(s) ==
    LET d == DotAt(s)
        ip == SubSeq(s, 1, d - 1)
        fp == SubSeq(s, d + 1, Len(s))
    IN  AllDigits(ip) /\ AllDigits(fp) /\ Len(ip) + Len(fp) > 0

FloatOk(s) ==
    LET t == strip(s)
    IN  IF t # <<>> /\ Head(t) \in {"-", "+"}
        THEN FloatUnsignedOk(Tail(t)) ELSE FloatUnsignedOk(t)

FloatUnsigned(s) ==
    LET d == DotAt(s)
    IN  IntValue(SubSeq(s, 1, d - 1)) * Scale + FracValue(SubSeq(s, d + 1, Len(s)))

\* float(s), for FloatOk(s)
Float(s) ==
    LET t == strip(s)
    IN  IF t # <<>> /\ Head(t) = "-" THEN 0 - FloatUnsigned(Tail(t))
        ELSE IF t # <<>> /\ Head(t) = "+" THEN FloatUnsigned(Tail(t))
        ELSE FloatUnsigned(t)

\* app.py:113-119: the pair parsed from loc_str, or (None, None)
ParsePair(loc_str) ==
    IF MatchesPair(loc_str)
    THEN LET parts == split(loc_str, ",")
         IN  IF Len(parts) = 2 /\ FloatOk(parts[1]) /\ FloatOk(parts[2])
             THEN <<Some(Float(parts[1])), Some(Float(parts[2]))>>
             ELSE <<None, None>>
    ELSE <<None, None>>

\* the geocoder is asked whatever the pattern gave
NeedsGeocoding_always(la, lo) == TRUE

\* app.py:121
NeedsGeocoding(la, lo) == la = None \/ lo = None

(***************************************************************************)
(* JSON scalars and their text in an f-string.  A float holds tenths.      *)
(***************************************************************************)
Null == [t |-> "none", n |-> 0, s |-> ""]
Int_(n) == [t |-> "int", n |-> n, s |-> ""]
Flt(tenths) == [t |-> "float", n |-> tenths, s |-> ""]
Str(s) == [t |-> "str", n |-> 0, s |-> s]

DigitChar(d) == <<"0", "1", "2", "3", "4", "5", "6", "7", "8", "9">>[d + 1]

RECURSIVE NatText(_)
NatText(n) ==
    IF n < 10 THEN <<DigitChar(n)>> ELSE NatText(n \div 10) \o <<DigitChar(n % 10)>>

IntText(n) == IF n < 0 THEN <<"-">> \o NatText(0 - n) ELSE NatText(n)

\* str(x) of a float with one decimal: 12.3 is "12.3", 12.0 is "12.0"
FloatText(tenths) ==
    LET a == IF tenths < 0 THEN 0 - tenths ELSE tenths
    IN  (IF tenths < 0 THEN <<"-">> ELSE <<>>)
        \o NatText(a \div 10) \o <<".">> \o <<DigitChar(a % 10)>>

\* f"{v}"
Text(v) ==
    CASE v.t = "none" -> <<"N", "o", "n", "e">>
      [] v.t = "int" -> IntText(v.n)
      [] v.t = "float" -> FloatText(v.n)
      [] OTHER -> <<v.s>>

\* dict.get(key) and dict.get(key, default)
Get(d, key) == IF key \in DOMAIN d THEN d[key] ELSE Null
GetOr(d, key, default) == IF key \in DOMAIN d THEN d[key] ELSE default

\* app.py:71-82  f"{current.get(k)} {units.get(k, 'N/A')}"
Measurement(current, units, key) ==
    Text(Get(current, key)) \o <<" ">> \o Text(GetOr(units, key, Str("N/A")))

(***************************************************************************)
(* The replies of the collaborators.                                       *)
(***************************************************************************)
Raise(exc) == [kind |-> "raise", exc |-> exc]
Json(doc) == [kind |-> "json", doc |-> doc]

\* the measurements of a response: ammonia is null and dust is not sent
AirCurrent ==
    [carbon_monoxide |-> Flt(1230), nitrogen_dioxide |-> Flt(123),
     ozone |-> Flt(680), sulphur_dioxide |-> Flt(-21), pm10 |-> Int_(15),
     pm2_5 |-> Flt(98), ammonia |-> Null, aerosol_optical_depth |-> Flt(2),
     uv_index |-> Flt(35)]

\* the units of a response: the unit of uv_index is not sent
AirUnits ==
    [carbon_monoxide |-> Str("ug/m3"), nitrogen_dioxide |-> Str("ug/m3"),
     ozone |-> Str("ug/m3"), sulphur_dioxide |-> Str("ug/m3"),
     pm10 |-> Str("ug/m3"), pm2_5 |-> Str("ug/m3"), ammonia |-> Str("ug/m3"),
     aerosol_optical_depth |-> Str(""), dust |-> Str("ug/m3")]

\* the JSON of the air-quality service: complete, without timezone, without
\* 'current', without 'current_units'
AirDocs ==
    {[timezone |-> Str("Europe/Paris"), current |-> AirCurrent,
      current_units |-> AirUnits],
     [current |-> AirCurrent, current_units |-> AirUnits],
     [timezone |-> Str("GMT"), current_units |-> AirUnits],
     [timezone |-> Str("GMT"), current |-> AirCurrent]}

\* the JSON of the weather service: complete, without 'current', without
\* 'current_units'
WeatherDocs ==
    {[current |-> [temperature_2m |-> Flt(725), weather_code |-> Int_(3),
                   cloud_cover |-> Int_(40)],
      current_units |-> [temperature_2m |-> Str("F"),
                         weather_code |-> Str("wmo code"),
                         cloud_cover |-> Str("%")]],
     [current_units |-> [temperature_2m |-> Str("F")]],
     [current |-> [temperature_2m |-> Flt(725)]]}

\* app.py:53-55: requests.get raises, raise_for_status raises, or the JSON
AirReplies ==
    {Raise("ConnectionError"), Raise("500 Server Error")} \cup {Json(d) : d \in AirDocs}

\* app.py:57-59: raise_for_status raises, or the JSON
WeatherReplies ==
    {Raise("500 Server Error")} \cup {Json(d) : d \in WeatherDocs}

\* geolocator.geocode(name, timeout=5): a location, None, or an exception
GeoReplies ==
    {[kind |-> "location", latitude |-> 48 * Scale, longitude |-> 2 * Scale],
     [kind |-> "none", latitude |-> 0, longitude |-> 0],
     [kind |-> "GeocoderTimedOut", latitude |-> 0, longitude |-> 0],
     [kind |-> "GeocoderServiceError", latitude |-> 0, longitude |-> 0]}

\* app.py:21-30
get_coordinates_from_location(reply) ==
    IF reply.kind = "location"
    THEN <<Some(reply.latitude), Some(reply.longitude)>>
    ELSE <<None, None>>

(***************************************************************************)
(* The records of the Point Data Fetcher, app.py:32-93.                    *)
(***************************************************************************)
\* app.py:86-93
FailureRecord(la, lo, e) ==
    [success |-> FALSE, latitude |-> la, longitude |-> lo,
     error |-> <<"Failed to fetch data: ", e>>]

\* app.py:66-84
SuccessRecord(la, lo, air, weather) ==
    LET ac == air.current
        au == air.current_units
        wc == weather.current
        wu == weather.current_units
    IN  [success |-> TRUE, latitude |-> la, longitude |-> lo,
         timezone |-> GetOr(air, "timezone", Str("N/A")),
         co |-> Measurement(ac, au, "carbon_monoxide"),
         no2 |-> Measurement(ac, au, "nitrogen_dioxide"),
         o3 |-> Measurement(ac, au, "ozone"),
         so2 |-> Measurement(ac, au, "sulphur_dioxide"),
         pm10 |-> Measurement(ac, au, "pm10"),
         pm2_5 |-> Measurement(ac, au, "pm2_5"),
         ammonia |-> Measurement(ac, au, "ammonia"),
         aerosol_depth |-> Measurement(ac, au, "aerosol_optical_depth"),
         dust |-> Measurement(ac, au, "dust"),
         uv_index |-> Measurement(ac, au, "uv_index"),
         temp |-> Measurement(wc, wu, "temperature_2m"),
         cloud_cover |-> Measurement(wc, wu, "cloud_cover"),
         weather_code |-> GetOr(wc, "weather_code", Str("N/A"))]

\* app.py:61-64: the first key whose lookup raises KeyError, or None
MissingKey(air, weather) ==
    CASE "current" \notin DOMAIN air -> Some("'current'")
      [] "current_units" \notin DOMAIN air -> Some("'current_units'")
      [] "current" \notin DOMAIN weather -> Some("'current'")
      [] "current_units" \notin DOMAIN weather -> Some("'current_units'")
      [] OTHER -> None

\* a record that keeps the air-quality measurements when the weather call fails
SingleLocationRecord_partial(la, lo, air, weatherReply) ==
    IF "current" \in DOMAIN air /\ "current_units" \in DOMAIN air
    THEN [success |-> TRUE, latitude |-> la, longitude |-> lo,
          co |-> Measurement(air.current, air.current_units, "carbon_monoxide")]
    ELSE FailureRecord(la, lo, "'current'")

\* app.py:57-93: the record returned once the air-quality call has answered
\* with the document air and the weather call with weatherReply
SingleLocationRecord(la, lo, air, weatherReply) ==
    IF weatherReply.kind = "raise"
    THEN FailureRecord(la, lo, weatherReply.exc)
    ELSE IF MissingKey(air, weatherReply.doc) # None
         THEN FailureRecord(la, lo, MissingKey(air, weatherReply.doc)[1])
         ELSE SuccessRecord(la, lo, air, weatherReply.doc)

(***************************************************************************)
(* The Batch Request Handler, app.py:102-140.                              *)
(***************************************************************************)
\* request.json: an object with a string location_input of at most n
\* characters, an object without the key, an object whose location_input is a
\* number or null, or a JSON value that is no object
Bodies(n) ==
    {[kind |-> "text", text |-> s] : s \in Strings(n)}
    \cup {[kind |-> k, text |-> <<>>] : k \in {"missing", "number", "null", "array"}}

\* app.py:105-106: the stripped location_input, or None when the line raises
\* AttributeError (request.json is no dict, or the value has no strip())
LocationInput(b) ==
    CASE b.kind = "text" -> Some(strip(b.text))
      [] b.kind = "missing" -> Some(strip(<<>>))
      [] OTHER -> None

\* the list of the previous request is kept
NewResults_kept(old) == old

\* app.py:108
NewResults(old) == <<>>

\* an unresolved token leaves no record
AfterUnresolved_skipped(res, loc_str) == res

\* app.py:128-132
AfterUnresolved(res, loc_str) ==
    Append(res, [success |-> FALSE, location_input |-> loc_str,
                 error |-> <<"Could not find coordinates for location: ">>
                           \o loc_str])

\* an empty batch is answered like any other
BatchResponse_always200(res) ==
    [status |-> 200, json |-> [success |-> TRUE, results |-> res]]

\* a batch without a successful record is answered as a failure
BatchResponse_anySuccess(res) ==
    IF \E i \in 1..Len(res) : res[i].success
    THEN [status |-> 200, json |-> [success |-> TRUE, results |-> res]]
    ELSE [status |-> 400,
          json |-> [success |-> FALSE,
                    error |-> <<"Invalid input: Please provide a valid coordinate pair or location name.">>]]

\* app.py:134-140
BatchResponse(res) ==
    IF res = <<>>
    THEN [status |-> 400,
          json |-> [success |-> FALSE,
                    error |-> <<"Invalid input: Please provide a valid coordinate pair or location name.">>]]
    ELSE [status |-> 200, json |-> [success |-> TRUE, results |-> res]]

\* the exception that escapes get_data_endpoint at app.py:105-106
Escaped(exc) == [status |-> 500, exception |-> exc]

Calls == Len(geoCalls) + Len(airCalls) + Len(weatherCalls)

\* the reply to the next call of a collaborator: any reply, and in a repeated
\* request the reply the same call got the first time
Replies(all) ==
    IF run = 2 /\ Calls < Len(tape) THEN {tape[Calls + 1]} ELSE all

Taped(reply) == IF taping /\ run = 1 THEN Append(tape, reply) ELSE tape

\* app.py:105-110
Receive(b) ==
    /\ body' = b
    /\ geoCalls' = <<>>
    /\ airCalls' = <<>>
    /\ weatherCalls' = <<>>
    /\ resolved' = <<>>
    /\ lat' = None
    /\ lon' = None
    /\ air_response' = None
    /\ weather_response' = None
    /\ IF LocationInput(b) = None
       THEN /\ pc' = "done"
            /\ response' = Some(Escaped("AttributeError"))
            /\ UNCHANGED <<locations, idx, results>>
       ELSE /\ pc' = "loop"
            /\ response' = None
            /\ results' = NewResults(results)
            /\ locations' = Locations(LocationInput(b)[1])
            /\ idx' = 1
    /\ UNCHANGED jobVars

\* POST /get_data
Request ==
    /\ pc = "idle"
    /\ \E b \in Bodies(MaxLen) : Receive(b)
    /\ taping' = FALSE
    /\ UNCHANGED <<run, tape, first_response>>

\* POST /get_data, the replies of the collaborators being recorded
TapedRequest ==
    /\ pc = "idle"
    /\ \E b \in Bodies(MaxTapedLen) : Receive(b)
    /\ taping' = TRUE
    /\ UNCHANGED <<run, tape, first_response>>

\* the same request again, against the replies the first one got
Repeat ==
    /\ pc = "done"
    /\ run = 1
    /\ taping
    /\ run' = 2
    /\ first_response' = response
    /\ Receive(body)
    /\ UNCHANGED <<taping, tape>>

\* app.py:112-121
NextToken ==
    /\ pc = "loop"
    /\ idx <= Len(locations)
    /\ LET p == ParsePair(locations[idx])
       IN  /\ lat' = p[1]
           /\ lon' = p[2]
           /\ pc' = IF NeedsGeocoding(p[1], p[2]) THEN "geocode" ELSE "air"
    /\ air_response' = None
    /\ weather_response' = None
    /\ UNCHANGED <<run, taping, tape, body, locations, idx, results, response,
                   resolved, geoCalls, airCalls, weatherCalls, first_response,
                   jobVars>>

\* app.py:122-132 when the geocoder is needed
Geocode ==
    /\ pc = "geocode"
    /\ \E reply \in Replies(GeoReplies) :
         LET p == get_coordinates_from_location(reply)
         IN  /\ tape' = Taped(reply)
             /\ lat' = p[1]
             /\ lon' = p[2]
             /\ IF p[1] # None /\ p[2] # None
                THEN /\ pc' = "air"
                     /\ UNCHANGED <<idx, results, resolved>>
                ELSE /\ pc' = "loop"
                     /\ results' = AfterUnresolved(results, locations[idx])
                     /\ resolved' = Append(resolved, p)
                     /\ idx' = idx + 1
    /\ geoCalls' = Append(geoCalls, idx)
    /\ UNCHANGED <<run, taping, body, locations, air_response,
                   weather_response, response, airCalls, weatherCalls,
                   first_response, jobVars>>

\* app.py:125-126 with app.py:53-55, and app.py:86-93 when the call raises
AirCall ==
    /\ pc = "air"
    /\ \E reply \in Replies(AirReplies) :
         /\ tape' = Taped(reply)
         /\ air_response' = Some(reply)
         /\ IF reply.kind = "raise"
            THEN /\ results' = Append(results, FailureRecord(lat[1], lon[1], reply.exc))
                 /\ resolved' = Append(resolved, <<lat, lon>>)
                 /\ idx' = idx + 1
                 /\ pc' = "loop"
            ELSE /\ pc' = "weather"
                 /\ UNCHANGED <<idx, results, resolved>>
    /\ airCalls' = Append(airCalls, idx)
    /\ UNCHANGED <<run, taping, body, locations, lat, lon, weather_response,
                   response, geoCalls, weatherCalls, first_response, jobVars>>

\* app.py:57-93 and app.py:126
WeatherCall ==
    /\ pc = "weather"
    /\ \E reply \in Replies(WeatherReplies) :
         /\ tape' = Taped(reply)
         /\ weather_response' = Some(reply)
         /\ results' = Append(results,
                              SingleLocationRecord(lat[1], lon[1],
                                                   air_response[1].doc, reply))
    /\ resolved' = Append(resolved, <<lat, lon>>)
    /\ weatherCalls' = Append(weatherCalls, idx)
    /\ idx' = idx + 1
    /\ pc' = "loop"
    /\ UNCHANGED <<run, taping, body, locations, lat, lon, air_response,
                   response, geoCalls, airCalls, first_response, jobVars>>

\* app.py:134-140
Respond ==
    /\ pc = "loop"
    /\ idx > Len(locations)
    /\ response' = Some(BatchResponse(results))
    /\ pc' = "done"
    /\ UNCHANGED <<run, taping, tape, body, locations, idx, lat, lon,
                   air_response, weather_response, results, resolved,
                   geoCalls, airCalls, weatherCalls, first_response, jobVars>>

InitApp ==
    /\ pc = "idle"
    /\ run = 1
    /\ taping = FALSE
    /\ tape = <<>>
    /\ body = [kind |-> "missing", text |-> <<>>]
    /\ locations = <<>>
    /\ idx = 1
    /\ lat = None
    /\ lon = None
    /\ air_response = None
    /\ weather_response = None
    /\ results = <<>>
    /\ response = None
    /\ resolved = <<>>
    /\ geoCalls = <<>>
    /\ airCalls = <<>>
    /\ weatherCalls = <<>>
    /\ first_response = None

\* def.py:15-17 as shipped, before the script has run
InitJobIdle ==
    /\ sh_client_id = "YOUR_CLIENT_ID"
    /\ sh_client_secret = "YOUR_CLIENT_SECRET"
    /\ jpc = "startup"
    /\ start_year = FirstYear
    /\ end_year = FirstYear
    /\ year = FirstYear
    /\ folder = FALSE
    /\ files = {}
    /\ requests = <<>>
    /\ outcomes = <<>>
    /\ ndvi_data = <<>>
    /\ normalized_ndvi = <<>>

Init == InitApp /\ InitJobIdle

Handle == NextToken \/ Geocode \/ AirCall \/ WeatherCall \/ Respond

Next == Request \/ Handle

Spec == Init /\ [][Next]_vars

NextRepeat == TapedRequest \/ Repeat \/ Handle

SpecRepeat == Init /\ [][NextRepeat]_vars

(***************************************************************************)
(* The imagery job, def.py.                                                *)
(***************************************************************************)
Years == FirstYear..(FirstYear + MaxYears - 1)

\* def.py:16-17: the literal as shipped, the empty string, or a real value
ClientIds == {"YOUR_CLIENT_ID", "", "client-id-of-the-dashboard"}
ClientSecrets == {"YOUR_CLIENT_SECRET", "", "client-secret-of-the-dashboard"}

\* def.py:19
NotConfigured(id, secret) == id = "" \/ secret = ""

\* whether the provider knows the credentials
RealCredentials(id, secret) ==
    id = "client-id-of-the-dashboard" /\ secret = "client-secret-of-the-dashboard"

\* a pixel: NaN, or the number num / den
NaN == [nan |-> TRUE, num |-> 0, den |-> 1]
Num(v) == [nan |-> FALSE, num |-> v, den |-> 1]

Pixels == {NaN} \cup {Num(v) : v \in {-1, 0, 1}}
Rasters == UNION {[1..k -> Pixels] : k \in 1..MaxPixels}

Values(r) == {r[i].num : i \in {j \in 1..Len(r) : ~r[j].nan}}

\* np.nanmin, np.nanmax: NaN for an all-NaN array
nanmin(r) ==
    IF Values(r) = {} THEN NaN
    ELSE Num(CHOOSE v \in Values(r) : \A w \in Values(r) : v <= w)
nanmax(r) ==
    IF Values(r) = {} THEN NaN
    ELSE Num(CHOOSE v \in Values(r) : \A w \in Values(r) : v >= w)

\* def.py:102: ndvi_max - ndvi_min > 0, False when either is NaN
RangePositive(lo, hi) == ~lo.nan /\ ~hi.nan /\ hi.num - lo.num > 0

\* def.py:101-105
Normalize(r) ==
    LET lo == nanmin(r)
        hi == nanmax(r)
    IN  IF RangePositive(lo, hi)
        THEN [i \in 1..Len(r) |->
                 IF r[i].nan THEN NaN
                 ELSE [nan |-> FALSE, num |-> r[i].num - lo.num,
                       den |-> hi.num - lo.num]]
        ELSE [i \in 1..Len(r) |-> Num(0)]

\* a skipped year ends the loop
Continue_aborted(y, last) == last + 1

\* def.py:116-118 and def.py:92-94: the year visited after a year was skipped
Continue(y, last) == y + 1

\* def.py:15-21
Startup ==
    /\ jpc = "startup"
    /\ jpc' = IF NotConfigured(sh_client_id, sh_client_secret)
              THEN "exited" ELSE "main"
    /\ UNCHANGED <<sh_client_id, sh_client_secret, start_year, end_year, year,
                   folder, files, requests, outcomes, ndvi_data, normalized_ndvi,
                   appVars>>

\* def.py:33-42
Start ==
    /\ jpc = "main"
    /\ \E sy \in Years, ey \in (FirstYear - 1)..(FirstYear + MaxYears - 1) :
         /\ start_year' = sy
         /\ end_year' = ey
         /\ year' = sy
    /\ folder' = TRUE
    /\ jpc' = "loop"
    /\ UNCHANGED <<sh_client_id, sh_client_secret, files, requests, outcomes,
                   ndvi_data, normalized_ndvi, appVars>>

\* def.py:90, 116-118: request.get_data() raises
YearFails ==
    /\ jpc = "loop"
    /\ year <= end_year
    /\ requests' = Append(requests, year)
    /\ outcomes' = Append(outcomes, "exception")
    /\ year' = Continue(year, end_year)
    /\ UNCHANGED <<sh_client_id, sh_client_secret, jpc, start_year, end_year,
                   folder, files, ndvi_data, normalized_ndvi, appVars>>

\* def.py:90-94: no data, or an array without pixels
YearEmpty ==
    /\ jpc = "loop"
    /\ year <= end_year
    /\ RealCredentials(sh_client_id, sh_client_secret)
    /\ requests' = Append(requests, year)
    /\ outcomes' = Append(outcomes, "empty")
    /\ year' = Continue(year, end_year)
    /\ UNCHANGED <<sh_client_id, sh_client_secret, jpc, start_year, end_year,
                   folder, files, ndvi_data, normalized_ndvi, appVars>>

\* def.py:90-105: the raster arrives and is normalized
YearData ==
    /\ jpc = "loop"
    /\ year <= end_year
    /\ RealCredentials(sh_client_id, sh_client_secret)
    /\ requests' = Append(requests, year)
    /\ \E r \in Rasters :
         /\ ndvi_data' = r
         /\ normalized_ndvi' = Normalize(r)
    /\ jpc' = "render"
    /\ UNCHANGED <<sh_client_id, sh_client_secret, start_year, end_year, year,
                   folder, files, outcomes, appVars>>

\* def.py:108-114: the image is rendered and saved; the arrays are dropped
YearImage ==
    /\ jpc = "render"
    /\ files' = files \cup {year}
    /\ outcomes' = Append(outcomes, "image")
    /\ year' = year + 1
    /\ jpc' = "loop"
    /\ ndvi_data' = <<>>
    /\ normalized_ndvi' = <<>>
    /\ UNCHANGED <<sh_client_id, sh_client_secret, start_year, end_year,
                   folder, requests, appVars>>

\* def.py:108-111, 116-118: plt.imshow or plt.savefig raises, no file is written
YearRenderFails ==
    /\ jpc = "render"
    /\ outcomes' = Append(outcomes, "render_error")
    /\ year' = Continue(year, end_year)
    /\ jpc' = "loop"
    /\ ndvi_data' = <<>>
    /\ normalized_ndvi' = <<>>
    /\ UNCHANGED <<sh_client_id, sh_client_secret, start_year, end_year,
                   folder, files, requests, appVars>>

\* def.py:42: the range is exhausted
Finish ==
    /\ jpc = "loop"
    /\ year > end_year
    /\ jpc' = "done"
    /\ UNCHANGED <<sh_client_id, sh_client_secret, start_year, end_year, year,
                   folder, files, requests, outcomes, ndvi_data, normalized_ndvi,
                   appVars>>

\* the script as configured, on an output folder without frame files
InitJob ==
    /\ sh_client_id \in ClientIds
    /\ sh_client_secret \in ClientSecrets
    /\ jpc = "startup"
    /\ start_year = FirstYear
    /\ end_year = FirstYear
    /\ year = FirstYear
    /\ folder \in BOOLEAN
    /\ files = {}
    /\ requests = <<>>
    /\ outcomes = <<>>
    /\ ndvi_data = <<>>
    /\ normalized_ndvi = <<>>

InitImagery == InitApp /\ InitJob

NextImagery ==
    Startup \/ Start \/ YearFails \/ YearEmpty \/ YearData \/ YearImage
    \/ YearRenderFails \/ Finish

SpecImagery == InitImagery /\ [][NextImagery]_vars

(***************************************************************************)
(* Properties.  The tokens of an input string are characterised here from *)
(* the text itself, not by the split of app.py:110.                        *)
(***************************************************************************)
Blank(c) == c = " "

\* positions i and j of s lie in the same ';'-free stretch
SameSegment(s, i, j) == \A k \in i..j : s[k] # ";"

\* the positions where a non-empty trimmed token starts
TokenStarts(s) ==
    {i \in 1..Len(s) :
        /\ s[i] # ";" /\ ~Blank(s[i])
        /\ \A j \in 1..(i - 1) : SameSegment(s, j, i) => Blank(s[j])}

\* the position where the token starting at i ends
TokenEnd(s, i) ==
    CHOOSE e \in i..Len(s) :
        /\ SameSegment(s, i, e) /\ ~Blank(s[e])
        /\ \A m \in (e + 1)..Len(s) : SameSegment(s, e, m) => Blank(s[m])

\* the n-th non-empty trimmed token of s
TokenAt(s, n) ==
    LET i == CHOOSE j \in TokenStarts(s) :
                 Cardinality({k \in TokenStarts(s) : k <= j}) = n
    IN  SubSeq(s, i, TokenEnd(s, i))

\* s holds a non-empty trimmed token
HasToken(s) == \E i \in 1..Len(s) : s[i] # ";" /\ ~Blank(s[i])

NoCall == geoCalls = <<>> /\ airCalls = <<>> /\ weatherCalls = <<>>

Served == pc # "idle" /\ body.kind = "text"

Answered == pc = "done" /\ body.kind = "text"

\* C1: an input string without any character other than blanks and ';' is
\* answered with HTTP 400, success false and an error message, the handler
\* having called neither the geocoder nor the two upstream services.
C1_EmptyInputRejected ==
    (Served /\ ~HasToken(body.text)) =>
        /\ NoCall
        /\ pc \in {"loop", "done"}
        /\ pc = "loop" => idx > Len(locations)
        /\ pc = "done" =>
              /\ response[1].status = 400
              /\ response[1].json.success = FALSE
              /\ DOMAIN response[1].json = {"success", "error"}
              /\ response[1].json.error # <<>>

C1_Witness ==
    /\ Answered
    /\ body.text = <<" ", ";", " ">>
    /\ response[1].status = 400
    /\ NoCall

\* the record of position i is the one of the token tok, resolved to res
RecordOf(rec, tok, res) ==
    IF res = <<None, None>>
    THEN /\ DOMAIN rec = {"success", "location_input", "error"}
         /\ rec.location_input = tok
         /\ ~rec.success
    ELSE /\ "latitude" \in DOMAIN rec
         /\ "location_input" \notin DOMAIN rec
         /\ rec.latitude = res[1][1]
         /\ rec.longitude = res[2][1]

\* C2: the results hold one record per non-empty trimmed token of the input
\* string, in the order of the tokens: while the loop runs there is one
\* record per token handled, and in the response the i-th record is the
\* record of the i-th token.
C2_OneRecordPerTokenInOrder ==
    Served =>
        /\ pc \in {"loop", "geocode", "air", "weather"} =>
              /\ Len(results) = idx - 1
              /\ Len(resolved) = idx - 1
        /\ (pc = "done" /\ HasToken(body.text)) =>
              LET n == Cardinality(TokenStarts(body.text))
              IN  /\ response[1].status = 200
                  /\ Len(response[1].json.results) = n
                  /\ Len(resolved) = n
                  /\ \A i \in 1..n :
                        RecordOf(response[1].json.results[i],
                                 TokenAt(body.text, i), resolved[i])

C2_Witness ==
    /\ Answered
    /\ body.text = <<"P", ";", "-", "4">>
    /\ Len(results) = 2
    /\ "location_input" \in DOMAIN results[1]
    /\ results[1].location_input = <<"P">>
    /\ "latitude" \in DOMAIN results[2]
    /\ results[2].success

\* C3: a request with at least one non-empty token is answered with HTTP 200,
\* success true and the results, also when every record is a failure record.
C3_ItemFailuresKeepBatchSuccess ==
    (Answered /\ HasToken(body.text)) =>
        /\ response[1].status = 200
        /\ response[1].json.success = TRUE
        /\ response[1].json.results = results
        /\ results # <<>>

C3_Witness ==
    /\ Answered
    /\ Len(results) = 2
    /\ \A i \in 1..Len(results) : ~results[i].success
    /\ "latitude" \in DOMAIN results[1]
    /\ "location_input" \in DOMAIN results[2]
    /\ response[1].status = 200

\* C4: every request ends with a structured response, 200 with results or
\* 400 with an error; no exception escapes the handler.
C4_NoExceptionEscapes ==
    pc = "done" =>
        /\ response # None
        /\ response[1].status \in {200, 400}

\* the fetch of the token last handled has returned
Fetched == pc \in {"loop", "done"} /\ air_response # None

NoKeys(reply) ==
    /\ reply.kind = "json"
    /\ \/ "current" \notin DOMAIN reply.doc
       \/ "current_units" \notin DOMAIN reply.doc

FetchFailed ==
    \/ air_response[1].kind = "raise"
    \/ NoKeys(air_response[1])
    \/ /\ weather_response # None
       /\ \/ weather_response[1].kind = "raise"
          \/ NoKeys(weather_response[1])

\* C5: when the air-quality call or the weather call fails, or 'current' or
\* 'current_units' is absent from either response, the record of the point is
\* a failure record of exactly success, latitude, longitude and error: it
\* holds no measurement of the call that succeeded.
C5_NoPartialSuccess ==
    (Fetched /\ FetchFailed) =>
        LET rec == results[Len(results)]
        IN  /\ DOMAIN rec = {"success", "latitude", "longitude", "error"}
            /\ rec.success = FALSE
            /\ rec.latitude = lat[1]
            /\ rec.longitude = lon[1]

C5_Witness ==
    /\ Fetched
    /\ air_response[1].kind = "json"
    /\ ~NoKeys(air_response[1])
    /\ weather_response # None
    /\ weather_response[1].kind = "raise"
    /\ results[Len(results)].success = FALSE

\* C6: a token that matches the coordinate-pair pattern is resolved to the two
\* numbers float() gives for its halves, and the geocoder is called for no
\* such token: it is called only for tokens that gave no parsed pair.
C6_PairTokensBypassGeocoder ==
    Served =>
        /\ \A i \in 1..Len(resolved) :
              MatchesPair(locations[i]) =>
                 /\ resolved[i] = <<Some(Float(split(locations[i], ",")[1])),
                                    Some(Float(split(locations[i], ",")[2]))>>
                 /\ locations[i] = <<"4", ",", "-", "4">> =>
                       resolved[i] = <<Some(4 * Scale), Some((0 - 4) * Scale)>>
        /\ \A k \in 1..Len(geoCalls) : ~MatchesPair(locations[geoCalls[k]])
        /\ pc = "geocode" => ~MatchesPair(locations[idx])
        /\ (pc \in {"air", "weather"} /\ MatchesPair(locations[idx])) =>
              /\ lat = Some(Float(split(locations[idx], ",")[1]))
              /\ lon = Some(Float(split(locations[idx], ",")[2]))

C6_Witness ==
    /\ Answered
    /\ locations = << <<"-", "4", ",", "4">> >>
    /\ results[1].latitude = (0 - 4) * Scale
    /\ results[1].longitude = 4 * Scale
    /\ geoCalls = <<>>

\* C7: without real provider credentials the imagery job stops at startup
\* and issues no imagery request.
C7_MissingCredentialsFatal ==
    ~RealCredentials(sh_client_id, sh_client_secret) =>
        /\ requests = <<>>
        /\ jpc \in {"startup", "exited"}

\* the years from a to b, ascending
YearSeq(a, b) == [i \in 1..(IF b >= a THEN b - a + 1 ELSE 0) |-> a + i - 1]

\* C8: the job visits every year of the range once, in ascending order, and
\* ends with frame_<year>.png exactly for the years whose request gave data
\* without an exception; a year without data or with an exception gives no
\* file and does not stop the later years.
C8_EveryYearVisitedFramesForData ==
    /\ jpc = "loop" =>
          /\ requests = YearSeq(start_year, year - 1)
          /\ Len(outcomes) = Len(requests)
    /\ jpc = "render" => requests = YearSeq(start_year, year)
    /\ jpc = "done" =>
          /\ requests = YearSeq(start_year, end_year)
          /\ Len(outcomes) = Len(requests)
          /\ files = {requests[i] : i \in {j \in 1..Len(requests) :
                                              outcomes[j] = "image"}}

C8_Witness ==
    /\ jpc = "done"
    /\ start_year = FirstYear
    /\ end_year = FirstYear + 2
    /\ outcomes \in {<<"image", "empty", "image">>, <<"exception", "image", "image">>}
    /\ Cardinality(files) = 2

Constant(r) == \A i, j \in 1..Len(r) : r[i] = r[j]

\* C9: every pixel of the array handed to rendering is a number within
\* [0, 1], never NaN, and a raster with the same value at every pixel gives
\* an array of zeros.
C9_NormalizedWithinUnitInterval ==
    /\ \A i \in 1..Len(normalized_ndvi) :
          /\ ~normalized_ndvi[i].nan
          /\ normalized_ndvi[i].den > 0
          /\ 0 <= normalized_ndvi[i].num
          /\ normalized_ndvi[i].num <= normalized_ndvi[i].den
    /\ Constant(ndvi_data) =>
          \A i \in 1..Len(normalized_ndvi) : normalized_ndvi[i] = Num(0)

\* C10: the same request, served again against the replies the first one
\* got, is answered with the same response: the same records with the same
\* "<value> <unit>" strings.
C10_RepeatedRequestSameResponse ==
    (pc = "done" /\ run = 2) => response = first_response

C10_Witness ==
    /\ pc = "done"
    /\ run = 2
    /\ response = first_response
    /\ Len(results) = 2
    /\ results[1].success
    /\ results[1].co = <<"1", "2", "3", ".", "0", " ", "ug/m3">>
    /\ results[1].so2 = <<"-", "2", ".", "1", " ", "ug/m3">>
    /\ results[1].ammonia = <<"N", "o", "n", "e", " ", "ug/m3">>
    /\ results[1].uv_index = <<"3", ".", "5", " ", "N/A">>
    /\ results[1].temp = <<"7", "2", ".", "5", " ", "F">>
====
